---- MODULE Spec2Model ----
(***************************************************************************)
(* VisionStream (backend/app.py): open_capture and main, modelled as a      *)
(* state machine whose control points are the statements at which the       *)
(* platform capture/display services are called or at which a               *)
(* KeyboardInterrupt can be delivered.                                      *)
(*                                                                          *)
(* A capture handle is a record [opened, releases]; handles is the list of  *)
(* every cv2.VideoCapture object created so far and a handle is referred    *)
(* to by its index in that list (0 stands for None).                        *)
(***************************************************************************)
EXTENDS Bags, Integers, Sequences, FiniteSets

\* ---- program constants (backend/app.py) ----
RTSP_RETRY_ATTEMPTS == 3
FPS_FRAME_COUNT == 60
CONSEC_FAIL_MAX == 30
EXIT_OK == 0
EXIT_INIT_FAIL == 1
EXIT_RUNTIME_FAIL == 2
\* exit status of the interpreter when an exception reaches the top level
EXIT_UNCAUGHT == 1

\* ---- bounds of the model ----
\* most frames any source delivers in a run
MaxFrames == 3
\* largest inter-frame duration (in clock ticks) perf_counter can report
MaxDur == 1
\* long runs: most frames delivered, most times the duration changes from one
\* frame to the next, most failed reads in a row
MaxFeed == 62
MaxChanges == 1
MaxEstFails == 1

None == 0
\* the three kinds parse_args accepts, and one kind it rejects, which reaches
\* open_capture only when open_capture is called by other code than main
Sources == {"webcam", "file", "rtsp", "invalid"}
Paths == {"", "p"}
NoStatus == -1

VARIABLES
    source,            \* args.source
    path,              \* args.path ("" stands for an absent or empty path)
    pc,                \* control point
    handles,           \* every VideoCapture created: [opened, releases]
    oc_cap,            \* local cap of open_capture
    attempt,           \* loop variable of the rtsp retry loop
    delays,            \* number of time.sleep(RTSP_RETRY_DELAY) calls made
    cap,               \* cap of main (the value open_capture returned)
    windowCreated,     \* cv2.namedWindow has been called
    destroyCalls,      \* number of cv2.destroyAllWindows calls
    frame_durations,   \* deque(maxlen=FPS_FRAME_COUNT)
    frame_count,
    consecutive_failures,
    exit_code,
    ret,               \* result flag of the last cap.read()
    exit_status,       \* status the process exited with, NoStatus while running
    \* ---- history variables (observations, not program state) ----
    delivered,         \* number of reads that returned ret = True
    trailingFails,     \* length of the trailing run of ret = False reads
    readCalls,         \* "none", "some": whether cap.read() was ever called
    termReason,        \* why the run ended
    initErrorLogged,   \* logger.error of line 108 was emitted
    summaries,         \* number of "VisionStream closed" summary lines
    readAfterCeiling,  \* a read was made after the ceiling had been reached
    prevRunNear,       \* the last good read ended a run of exactly
                       \* CONSEC_FAIL_MAX - 1 failed reads
    \* ---- display and user ----
    pending,           \* what the user has asked for: "none", "quit" (q key
                       \* pressed), "closed" (window closed)
    key,               \* key of main: what cv2.waitKey(1) & 0xFF last returned
    fps,               \* fps of main as an exact ratio << numerator, denominator >>
    \* ---- more history variables ----
    pendingAtRead,     \* value of pending when the last cap.read() was called
    rendered,          \* number of cv2.imshow calls
    raisedAt,          \* control point at which an exception was raised
    durationLog,       \* every frame duration appended so far, in order
    keyPolls,          \* number of cv2.waitKey calls that returned
    winPolls           \* number of cv2.getWindowProperty calls that returned

vars == << source, path, pc, handles, oc_cap, attempt, delays, cap,
           windowCreated, destroyCalls, frame_durations, frame_count,
           consecutive_failures, exit_code, ret, exit_status, delivered,
           trailingFails, readCalls, termReason, initErrorLogged, summaries,
           readAfterCeiling, prevRunNear, pending, key, fps, pendingAtRead,
           rendered, raisedAt, durationLog, keyPolls, winPolls >>

ocVars == << handles, oc_cap, attempt, delays >>
loopVars == << frame_durations, frame_count, consecutive_failures, exit_code, ret >>
histVars == << delivered, trailingFails, readCalls, readAfterCeiling, prevRunNear >>
uiVars == << pending, key, fps >>
polls == << keyPolls, winPolls >>
obsVars == << pendingAtRead, rendered, raisedAt, durationLog, polls >>
mainVars == << cap, windowCreated, destroyCalls, exit_status, termReason,
               initErrorLogged, summaries >>

\* ---- capture handles ----
\* cv2.VideoCapture(...): a new object that did or did not open
VideoCapture(ok) == [opened |-> ok, releases |-> 0]

\* cap.isOpened(): a released capture no longer reports itself open
reportsOpen(hs, h) == hs[h].opened /\ hs[h].releases = 0

\* cap.isOpened() on a handle of the current list
isOpened(h) == reportsOpen(handles, h)

\* cap.release() applied to handle h of the list hs
release(hs, h) == [hs EXCEPT ![h].releases = @ + 1]

\* variant: the deque has no maxlen
DequeAppend_Unbounded(q, x, n) == Append(q, x)

\* variant: at capacity the new entry is dropped, not the oldest
DequeAppend_KeepOldest(q, x, n) == IF Len(q) < n THEN Append(q, x) ELSE q

\* deque(maxlen=n).append(x): the oldest entry is dropped at capacity
DequeAppend(q, x, n) ==
    IF Len(q) < n THEN Append(q, x) ELSE Append(Tail(q), x)

Init ==
    /\ source \in Sources
    /\ path \in Paths
    /\ pc = "open"
    /\ handles = << >>
    /\ oc_cap = None
    /\ attempt = 0
    /\ delays = 0
    /\ cap = None
    /\ windowCreated = FALSE
    /\ destroyCalls = 0
    /\ frame_durations = << >>
    /\ frame_count = 0
    /\ consecutive_failures = 0
    /\ exit_code = EXIT_OK
    /\ ret = FALSE
    /\ exit_status = NoStatus
    /\ delivered = 0
    /\ trailingFails = 0
    /\ readCalls = "none"
    /\ termReason = "none"
    /\ initErrorLogged = FALSE
    /\ summaries = 0
    /\ readAfterCeiling = FALSE
    /\ prevRunNear = FALSE
    /\ pending = "none"
    /\ key = "none"
    /\ fps = << 0, 1 >>
    /\ pendingAtRead = "none"
    /\ rendered = 0
    /\ raisedAt = "none"
    /\ durationLog = << >>
    /\ keyPolls = 0
    /\ winPolls = 0

\* ------------------------------------------------------------------------
\* open_capture
\* ------------------------------------------------------------------------

\* variant: the path test is skipped
PathMissing_Skipped(p) == FALSE

\* if not path
PathMissing(p) == p = ""

\* return None from open_capture into main's cap
ReturnNone ==
    /\ cap' = None
    /\ pc' = "main_check"

\* source == "webcam": cap = cv2.VideoCapture(0)
OpenWebcam ==
    /\ pc = "open"
    /\ source = "webcam"
    /\ \E ok \in BOOLEAN :
          /\ handles' = Append(handles, VideoCapture(ok))
          /\ oc_cap' = Len(handles) + 1
    /\ pc' = "check_open"
    /\ UNCHANGED << source, path, uiVars, obsVars, attempt, delays, loopVars,
                    histVars, mainVars >>

\* source == "file": path check, then cap = cv2.VideoCapture(path)
OpenFile ==
    /\ pc = "open"
    /\ source = "file"
    /\ IF PathMissing(path)
       THEN /\ ReturnNone
            /\ UNCHANGED << handles, oc_cap >>
       ELSE /\ \E ok \in BOOLEAN :
                  /\ handles' = Append(handles, VideoCapture(ok))
                  /\ oc_cap' = Len(handles) + 1
            /\ pc' = "check_open"
            /\ cap' = cap
    /\ UNCHANGED << source, path, uiVars, obsVars, attempt, delays, loopVars,
                    histVars,
                    windowCreated, destroyCalls, exit_status, termReason,
                    initErrorLogged, summaries >>

\* source == "rtsp": path check, cap = None, enter the retry loop
OpenRtsp ==
    /\ pc = "open"
    /\ source = "rtsp"
    /\ IF PathMissing(path)
       THEN /\ ReturnNone
            /\ UNCHANGED << oc_cap, attempt >>
       ELSE /\ oc_cap' = None
            /\ attempt' = 1
            /\ pc' = "rtsp_attempt"
            /\ cap' = cap
    /\ UNCHANGED << source, path, uiVars, obsVars, handles, delays, loopVars,
                    histVars,
                    windowCreated, destroyCalls, exit_status, termReason,
                    initErrorLogged, summaries >>

\* variant: the last attempt is followed by a sleep and one more attempt
RetryRemains_OneMore(a) == a <= RTSP_RETRY_ATTEMPTS

\* whether a failed attempt is followed by a retry
RetryRemains(a) == a < RTSP_RETRY_ATTEMPTS

\* one pass of the retry loop up to the sleep: open, test, release on failure
RtspAttempt ==
    /\ pc = "rtsp_attempt"
    /\ \E ok \in BOOLEAN :
          LET h == Len(handles) + 1
              hs == Append(handles, VideoCapture(ok))
          IN  /\ oc_cap' = h
              /\ IF reportsOpen(hs, h)
                 THEN /\ handles' = hs
                      /\ pc' = "check_open"
                      /\ cap' = cap
                 ELSE /\ handles' = release(hs, h)
                      /\ IF RetryRemains(attempt)
                         THEN /\ pc' = "rtsp_sleep"
                              /\ cap' = cap
                         ELSE ReturnNone
    /\ UNCHANGED << source, path, uiVars, obsVars, attempt, delays, loopVars,
                    histVars,
                    windowCreated, destroyCalls, exit_status, termReason,
                    initErrorLogged, summaries >>

\* time.sleep(RTSP_RETRY_DELAY), then the next value of attempt
RtspSleep ==
    /\ pc = "rtsp_sleep"
    /\ delays' = delays + 1
    /\ attempt' = attempt + 1
    /\ pc' = "rtsp_attempt"
    /\ UNCHANGED << source, path, uiVars, obsVars, handles, oc_cap, loopVars,
                    histVars, mainVars >>

\* else branch: invalid source type
OpenInvalid ==
    /\ pc = "open"
    /\ source \notin {"webcam", "file", "rtsp"}
    /\ ReturnNone
    /\ UNCHANGED << source, path, uiVars, obsVars, ocVars, loopVars, histVars,
                    windowCreated, destroyCalls, exit_status, termReason,
                    initErrorLogged, summaries >>

\* variant: the final isOpened test is skipped
CheckedHandle_Unchecked(h) == h

\* the handle open_capture hands back after the final test
CheckedHandle(h) == IF h = None \/ ~isOpened(h) THEN None ELSE h

\* if cap is None or not cap.isOpened(): return None; else return cap
CheckOpen ==
    /\ pc = "check_open"
    /\ cap' = CheckedHandle(oc_cap)
    /\ pc' = "main_check"
    /\ UNCHANGED << source, path, uiVars, obsVars, ocVars, loopVars, histVars,
                    windowCreated, destroyCalls, exit_status, termReason,
                    initErrorLogged, summaries >>

\* ------------------------------------------------------------------------
\* main, before the try block
\* ------------------------------------------------------------------------

\* variant: main does not test what open_capture returned
InitFailed_Ignored(c) == FALSE

\* if cap is None
InitFailed(c) == c = None

\* if cap is None: logger.error(...); sys.exit(EXIT_INIT_FAIL)
MainCheck ==
    /\ pc = "main_check"
    /\ IF InitFailed(cap)
       THEN /\ initErrorLogged' = TRUE
            /\ exit_status' = EXIT_INIT_FAIL
            /\ termReason' = "init_fail"
            /\ pc' = "exited"
       ELSE /\ pc' = "window"
            /\ UNCHANGED << initErrorLogged, exit_status, termReason >>
    /\ UNCHANGED << source, path, uiVars, obsVars, ocVars, loopVars, histVars,
                    cap,
                    windowCreated, destroyCalls, summaries >>

\* cv2.namedWindow(...) and the initialisation of the loop state
NamedWindow ==
    /\ pc = "window"
    /\ windowCreated' = TRUE
    /\ frame_durations' = << >>
    /\ frame_count' = 0
    /\ consecutive_failures' = 0
    /\ exit_code' = EXIT_OK
    /\ pc' = "read"
    /\ UNCHANGED << source, path, uiVars, obsVars, ocVars, histVars, ret, cap,
                    destroyCalls,
                    exit_status, termReason, initErrorLogged, summaries >>

\* cv2.namedWindow raises (no display backend): nothing encloses the call,
\* the exception reaches the top level and the interpreter exits
NamedWindowRaises ==
    /\ pc = "window"
    /\ exit_status' = EXIT_UNCAUGHT
    /\ termReason' = "uncaught"
    /\ pc' = "exited"
    /\ UNCHANGED << source, path, uiVars, obsVars, ocVars, loopVars, histVars,
                    cap,
                    windowCreated, destroyCalls, initErrorLogged, summaries >>

\* ------------------------------------------------------------------------
\* main, the try block: one iteration of while True
\* ------------------------------------------------------------------------

\* control points inside the try block
TryPcs == {"read", "ret", "eof", "ceiling", "ceil_break", "backoff",
           "render", "key", "win"}

\* ret, frame = cap.read() returns; at most MaxFrames reads deliver a frame
Read ==
    /\ pc = "read"
    /\ \E r \in BOOLEAN :
          /\ r => delivered < MaxFrames
          /\ ret' = r
          /\ delivered' = IF r THEN delivered + 1 ELSE delivered
          /\ trailingFails' = IF r THEN 0 ELSE trailingFails + 1
          /\ prevRunNear' = IF r THEN trailingFails = CONSEC_FAIL_MAX - 1
                            ELSE prevRunNear
    /\ readCalls' = "some"
    /\ pendingAtRead' = pending
    /\ readAfterCeiling' =
          (readAfterCeiling \/ (source # "file" /\ trailingFails >= CONSEC_FAIL_MAX))
    /\ pc' = "ret"
    /\ UNCHANGED << source, path, uiVars, rendered, raisedAt, durationLog, polls,
                    ocVars, mainVars, frame_durations,
                    frame_count, consecutive_failures, exit_code >>

\* variant: a file is handled like a live source
IsFile_Never(s) == FALSE

\* if args.source == "file"
IsFile(s) == s = "file"

\* variant: the comparison is strict
CeilingReached_Strict(n) == n > CONSEC_FAIL_MAX

\* if consecutive_failures >= CONSEC_FAIL_MAX
CeilingReached(n) == n >= CONSEC_FAIL_MAX

\* variant: a failed read is counted twice
CountFailure_Twice(n) == n + 2

\* consecutive_failures += 1
CountFailure(n) == n + 1

\* if not ret: count the failure and choose the branch
NotDelivered ==
    /\ pc = "ret"
    /\ ~ret
    /\ consecutive_failures' = CountFailure(consecutive_failures)
    /\ pc' = IF IsFile(source) THEN "eof"
             ELSE IF CeilingReached(consecutive_failures') THEN "ceiling"
             ELSE "backoff"
    /\ UNCHANGED << source, path, uiVars, obsVars, ocVars, mainVars, histVars,
                    frame_durations,
                    frame_count, exit_code, ret >>

\* file branch: log, exit_code = EXIT_OK, break
EndOfFile ==
    /\ pc = "eof"
    /\ exit_code' = EXIT_OK
    /\ termReason' = "eof"
    /\ pc' = "finally"
    /\ UNCHANGED << source, path, uiVars, obsVars, ocVars, histVars,
                    frame_durations,
                    frame_count, consecutive_failures, ret, cap, windowCreated,
                    destroyCalls, exit_status, initErrorLogged, summaries >>

\* ceiling branch: logger.error(...), exit_code = EXIT_RUNTIME_FAIL
CeilingFail ==
    /\ pc = "ceiling"
    /\ exit_code' = EXIT_RUNTIME_FAIL
    /\ pc' = "ceil_break"
    /\ UNCHANGED << source, path, uiVars, obsVars, ocVars, histVars, mainVars,
                    frame_durations,
                    frame_count, consecutive_failures, ret >>

\* variant: the ceiling leads to a new connection attempt
BreakTarget_Reconnect == "rtsp_attempt"

\* where break leaves the while loop to: the finally block
BreakTarget == "finally"

\* ceiling branch: break
CeilingBreak ==
    /\ pc = "ceil_break"
    /\ termReason' = "ceiling"
    /\ pc' = BreakTarget
    /\ UNCHANGED << source, path, uiVars, obsVars, ocVars, histVars, loopVars,
                    cap, windowCreated,
                    destroyCalls, exit_status, initErrorLogged, summaries >>

\* time.sleep(0.02); continue
Backoff ==
    /\ pc = "backoff"
    /\ pc' = "read"
    /\ UNCHANGED << source, path, uiVars, obsVars, ocVars, histVars, loopVars,
                    mainVars >>

\* variant: a good frame does not reset the count
ResetFailures_Kept(n) == n

\* else: consecutive_failures = 0
ResetFailures(n) == 0

\* variant: the frame is counted twice
CountFrame_Twice(n) == n + 2

\* frame_count += 1
CountFrame(n) == n + 1

\* a good frame: reset the failure count, append the duration since the
\* previous frame (perf_counter is monotonic: any d >= 0), count the frame
Delivered ==
    /\ pc = "ret"
    /\ ret
    /\ consecutive_failures' = ResetFailures(consecutive_failures)
    /\ \E d \in 0..MaxDur :
          /\ frame_durations' = DequeAppend(frame_durations, d, FPS_FRAME_COUNT)
          /\ durationLog' = Append(durationLog, d)
    /\ frame_count' = CountFrame(frame_count)
    /\ pc' = "render"
    /\ UNCHANGED << source, path, uiVars, pendingAtRead, rendered, raisedAt, polls,
                    ocVars, mainVars, histVars, exit_code, ret >>

\* sum(frame_durations).  The entries are whole numbers of clock ticks, so the
\* sum is the size of the bag holding index i exactly q[i] times; an index
\* whose entry is 0 is not in the bag.
SeqSum(q) == BagCardinality([i \in {j \in 1..Len(q) : q[j] > 0} |-> q[i]])

\* avg_duration = sum(frame_durations) / len(frame_durations), as the exact
\* ratio << numerator, denominator >>
AvgDuration(q) == << SeqSum(q), Len(q) >>

\* variant: a zero average is inverted as well
Reciprocal_ZeroToo(a) == IF a[1] >= 0 THEN << a[2], a[1] >> ELSE << 0, 1 >>

\* 1.0 / avg_duration if avg_duration > 0 else 0.0
Reciprocal(a) == IF a[1] > 0 THEN << a[2], a[1] >> ELSE << 0, 1 >>

\* if frame_durations: fps = 1.0 / avg if avg > 0 else 0.0; else: fps = 0.0
Fps(q) == IF Len(q) > 0 THEN Reciprocal(AvgDuration(q)) ELSE << 0, 1 >>

\* fps, draw_text, draw_bbox, draw_fps, debug line, cv2.imshow
Render ==
    /\ pc = "render"
    /\ fps' = Fps(frame_durations)
    /\ rendered' = rendered + 1
    /\ pc' = "key"
    /\ UNCHANGED << source, path, pending, key, pendingAtRead, raisedAt,
                    durationLog, polls, ocVars, histVars, loopVars, mainVars >>

\* the user presses q or closes the window while the loop runs; the request
\* stays pending until the loop polls for it
UserSignal ==
    /\ pc \in TryPcs
    /\ pending = "none"
    /\ \E s \in {"quit", "closed"} : pending' = s
    /\ UNCHANGED << source, path, pc, key, fps, obsVars, ocVars, histVars,
                    loopVars, mainVars >>

\* cv2.waitKey(1) & 0xFF: the q key if it was pressed, else another value
waitKey(p) == IF p = "quit" THEN "q" ELSE "other"

\* variant: the key is never recognised
IsQuitKey_Never(k) == FALSE

\* if key == ord("q")
IsQuitKey(k) == k = "q"

\* key = cv2.waitKey(1) & 0xFF; "q" ends the loop with EXIT_OK
PollKey ==
    /\ pc = "key"
    /\ key' = waitKey(pending)
    /\ keyPolls' = keyPolls + 1
    /\ IF IsQuitKey(key')
       THEN /\ exit_code' = EXIT_OK
            /\ termReason' = "quit"
            /\ pc' = "finally"
       ELSE /\ pc' = "win"
            /\ UNCHANGED << exit_code, termReason >>
    /\ UNCHANGED << source, path, pending, fps, pendingAtRead, rendered,
                    raisedAt, durationLog, winPolls, ocVars, histVars,
                    frame_durations, frame_count, consecutive_failures, ret,
                    cap, windowCreated, destroyCalls, exit_status,
                    initErrorLogged, summaries >>

\* variant: the window is always taken to be visible
WindowGone_Never(p) == FALSE

\* cv2.getWindowProperty(WINDOW_NAME, cv2.WND_PROP_VISIBLE) < 1
WindowGone(p) == p = "closed"

\* a window that is no longer visible ends the loop with EXIT_OK
PollWindow ==
    /\ pc = "win"
    /\ winPolls' = winPolls + 1
    /\ IF WindowGone(pending)
       THEN /\ exit_code' = EXIT_OK
            /\ termReason' = "closed"
            /\ pc' = "finally"
       ELSE /\ pc' = "read"
            /\ UNCHANGED << exit_code, termReason >>
    /\ UNCHANGED << source, path, uiVars, pendingAtRead, rendered, raisedAt,
                    durationLog, keyPolls, ocVars, histVars,
                    frame_durations, frame_count, consecutive_failures, ret,
                    cap, windowCreated, destroyCalls, exit_status,
                    initErrorLogged, summaries >>

\* KeyboardInterrupt delivered at any statement of the try block
\* (an interrupt outside the try block is not modelled)
Interrupt ==
    /\ pc \in TryPcs
    /\ raisedAt' = pc
    /\ pc' = "except_kbd"
    /\ UNCHANGED << source, path, uiVars, pendingAtRead, rendered, durationLog, polls,
                    ocVars, histVars, loopVars, mainVars >>

\* cap.read() raises an Exception
ReadRaises ==
    /\ pc = "read"
    /\ readCalls' = "some"
    /\ raisedAt' = pc
    /\ pc' = "except_exc"
    /\ UNCHANGED << source, path, uiVars, pendingAtRead, rendered, durationLog, polls,
                    ocVars, loopVars, mainVars, delivered,
                    trailingFails, readAfterCeiling, prevRunNear >>

\* a drawing, display or polling call raises an Exception
LoopRaises ==
    /\ pc \in {"render", "key", "win"}
    /\ raisedAt' = pc
    /\ pc' = "except_exc"
    /\ UNCHANGED << source, path, uiVars, pendingAtRead, rendered, durationLog, polls,
                    ocVars, histVars, loopVars, mainVars >>

\* variant: the clause keeps a failure code
InterruptCode_Runtime == EXIT_RUNTIME_FAIL

\* exit code chosen by the except KeyboardInterrupt clause
InterruptCode == EXIT_OK

\* variant: the clause reports success
ErrorCode_Ok == EXIT_OK

\* exit code chosen by the except Exception clause
ErrorCode == EXIT_RUNTIME_FAIL

\* except KeyboardInterrupt: log, exit_code = EXIT_OK
ExceptInterrupt ==
    /\ pc = "except_kbd"
    /\ exit_code' = InterruptCode
    /\ termReason' = "interrupt"
    /\ pc' = "finally"
    /\ UNCHANGED << source, path, uiVars, obsVars, ocVars, histVars,
                    frame_durations,
                    frame_count, consecutive_failures, ret, cap, windowCreated,
                    destroyCalls, exit_status, initErrorLogged, summaries >>

\* except Exception: logger.exception(...), exit_code = EXIT_RUNTIME_FAIL
ExceptError ==
    /\ pc = "except_exc"
    /\ exit_code' = ErrorCode
    /\ termReason' = "error"
    /\ pc' = "finally"
    /\ UNCHANGED << source, path, uiVars, obsVars, ocVars, histVars,
                    frame_durations,
                    frame_count, consecutive_failures, ret, cap, windowCreated,
                    destroyCalls, exit_status, initErrorLogged, summaries >>

\* handles after the release of the finally block
FinallyRelease(hs, c) == IF c # None THEN release(hs, c) ELSE hs

\* finally: cap.release(), destroyAllWindows(), summary, sys.exit(exit_code)
Finally ==
    /\ pc = "finally"
    /\ handles' = FinallyRelease(handles, cap)
    /\ destroyCalls' = destroyCalls + 1
    /\ summaries' = summaries + 1
    /\ exit_status' = exit_code
    /\ pc' = "exited"
    /\ UNCHANGED << source, path, uiVars, obsVars, oc_cap, attempt, delays,
                    loopVars, histVars,
                    cap, windowCreated, termReason, initErrorLogged >>

Next ==
    \/ OpenWebcam
    \/ OpenFile
    \/ OpenRtsp
    \/ RtspAttempt
    \/ RtspSleep
    \/ OpenInvalid
    \/ CheckOpen
    \/ MainCheck
    \/ NamedWindow
    \/ NamedWindowRaises
    \/ Read
    \/ NotDelivered
    \/ EndOfFile
    \/ CeilingFail
    \/ CeilingBreak
    \/ Backoff
    \/ Delivered
    \/ Render
    \/ PollKey
    \/ PollWindow
    \/ UserSignal
    \/ Interrupt
    \/ ReadRaises
    \/ LoopRaises
    \/ ExceptInterrupt
    \/ ExceptError
    \/ Finally

Spec == Init /\ [][Next]_vars

\* ------------------------------------------------------------------------
\* Long runs of the loop, one step per iteration
\*
\* SpecEst starts where NamedWindow leaves a webcam session and takes whole
\* iterations of while True as steps, so that the rate window fills and
\* evicts.  The durations fed are any sequence over 0..MaxDur of at most
\* MaxFeed entries that changes value at most MaxChanges times.
\* ------------------------------------------------------------------------

\* number of places at which a sequence changes value
Changes(q) == Cardinality({i \in 1..(Len(q) - 1) : q[i] # q[i + 1]})

InitEst ==
    /\ source = "webcam"
    /\ path = ""
    /\ pc = "read"
    /\ handles = << VideoCapture(TRUE) >>
    /\ oc_cap = 1
    /\ attempt = 0
    /\ delays = 0
    /\ cap = 1
    /\ windowCreated = TRUE
    /\ destroyCalls = 0
    /\ frame_durations = << >>
    /\ frame_count = 0
    /\ consecutive_failures = 0
    /\ exit_code = EXIT_OK
    /\ ret = FALSE
    /\ exit_status = NoStatus
    /\ delivered = 0
    /\ trailingFails = 0
    /\ readCalls = "none"
    /\ termReason = "none"
    /\ initErrorLogged = FALSE
    /\ summaries = 0
    /\ readAfterCeiling = FALSE
    /\ prevRunNear = FALSE
    /\ pending = "none"
    /\ key = "none"
    /\ fps = << 0, 1 >>
    /\ pendingAtRead = "none"
    /\ rendered = 0
    /\ raisedAt = "none"
    /\ durationLog = << >>
    /\ keyPolls = 0
    /\ winPolls = 0

\* an iteration whose read delivers a frame and in which neither q nor a
\* closed window is seen: reset, duration, count, fps, render, polls
IterDelivered ==
    /\ pc = "read"
    /\ Len(durationLog) < MaxFeed
    /\ \E d \in 0..MaxDur :
          /\ Changes(Append(durationLog, d)) <= MaxChanges
          /\ frame_durations' = DequeAppend(frame_durations, d, FPS_FRAME_COUNT)
          /\ durationLog' = Append(durationLog, d)
    /\ ret' = TRUE
    /\ consecutive_failures' = ResetFailures(consecutive_failures)
    /\ frame_count' = CountFrame(frame_count)
    /\ fps' = Fps(frame_durations')
    /\ key' = waitKey(pending)
    /\ delivered' = delivered + 1
    /\ trailingFails' = 0
    /\ prevRunNear' = (trailingFails = CONSEC_FAIL_MAX - 1)
    /\ readCalls' = "some"
    /\ rendered' = rendered + 1
    /\ keyPolls' = keyPolls + 1
    /\ winPolls' = winPolls + 1
    /\ UNCHANGED << source, path, pc, ocVars, mainVars, exit_code, pending,
                    pendingAtRead, raisedAt, readAfterCeiling >>

\* an iteration whose read fails below the ceiling: count, backoff, continue
IterFailed ==
    /\ pc = "read"
    /\ trailingFails < MaxEstFails
    /\ ret' = FALSE
    /\ consecutive_failures' = CountFailure(consecutive_failures)
    /\ ~IsFile(source)
    /\ ~CeilingReached(consecutive_failures')
    /\ trailingFails' = trailingFails + 1
    /\ readCalls' = "some"
    /\ UNCHANGED << source, path, pc, ocVars, mainVars, uiVars, obsVars,
                    frame_durations, frame_count, exit_code, delivered,
                    readAfterCeiling, prevRunNear >>

NextEst ==
    \/ IterDelivered
    \/ IterFailed

SpecEst == InitEst /\ [][NextEst]_vars

TypeOK ==
    /\ source \in Sources
    /\ path \in Paths
    /\ cap \in 0..Len(handles)
    /\ oc_cap \in 0..Len(handles)
    /\ attempt \in 0..RTSP_RETRY_ATTEMPTS
    /\ frame_count \in 0..MaxFrames
    /\ consecutive_failures \in 0..CONSEC_FAIL_MAX
    /\ exit_code \in {EXIT_OK, EXIT_RUNTIME_FAIL}
    /\ Len(frame_durations) <= FPS_FRAME_COUNT

\* ------------------------------------------------------------------------
\* Properties
\* ------------------------------------------------------------------------

NonFile == source \in {"webcam", "rtsp"}

\* control points of open_capture
OpenPcs == {"open", "rtsp_attempt", "rtsp_sleep", "check_open"}

\* the reads made so far end with CONSEC_FAIL_MAX failures in a row
CeilingRun == NonFile /\ trailingFails >= CONSEC_FAIL_MAX

\* C1 (as stated): on a non-file source a run of CONSEC_FAIL_MAX consecutive
\* failed reads ends the run with exit code EXIT_RUNTIME_FAIL and with
\* consecutive_failures equal to the ceiling, and no read follows.
C1_CeilingAlwaysRuntimeFail ==
    (CeilingRun /\ pc = "exited") =>
        /\ exit_status = EXIT_RUNTIME_FAIL
        /\ consecutive_failures = CONSEC_FAIL_MAX
        /\ ~readAfterCeiling

\* C1 (amended): after the ceiling-th consecutive failed read no further read
\* is made and the loop is left: control is in the failure branch, in the
\* interrupt handler, in the finally block or past it.  The run ends either by
\* the ceiling, with exit code EXIT_RUNTIME_FAIL and consecutive_failures equal
\* to the ceiling, or by a KeyboardInterrupt that arrived before the break,
\* with exit code EXIT_OK.
C1_CeilingTerminates ==
    /\ ~readAfterCeiling
    /\ trailingFails <= CONSEC_FAIL_MAX
    /\ CeilingRun =>
          /\ pc \in {"ret", "ceiling", "ceil_break", "except_kbd", "finally", "exited"}
          /\ termReason \in {"none", "ceiling", "interrupt"}
          /\ pc \in {"ceiling", "ceil_break"} => consecutive_failures = CONSEC_FAIL_MAX
          /\ termReason = "ceiling" =>
                /\ exit_code = EXIT_RUNTIME_FAIL
                /\ consecutive_failures = CONSEC_FAIL_MAX
          /\ termReason = "interrupt" => exit_code = EXIT_OK
          /\ pc = "exited" => exit_status = exit_code

C1_Witness ==
    /\ pc = "exited"
    /\ source = "webcam"
    /\ termReason = "ceiling"
    /\ trailingFails = CONSEC_FAIL_MAX
    /\ consecutive_failures = CONSEC_FAIL_MAX
    /\ exit_status = EXIT_RUNTIME_FAIL
    /\ delivered = 2

\* the last good read ended a run of exactly CONSEC_FAIL_MAX - 1 failures
\* and no read has been made since
NearCeilingRecovered ==
    /\ NonFile
    /\ readCalls = "some"
    /\ ret
    /\ trailingFails = 0
    /\ prevRunNear

\* C2: on a non-file source, after a run of exactly CONSEC_FAIL_MAX - 1 failed
\* reads followed by one good read the loop has not terminated by the ceiling:
\* once the good read is handled consecutive_failures is 0 and the loop goes on
\* to render, poll and read again; it is left only by a quit key, a closed
\* window, an interrupt or an unexpected error.
C2_RecoversBelowCeiling ==
    NearCeilingRecovered =>
        /\ pc = "ret" => (consecutive_failures = CONSEC_FAIL_MAX - 1 /\ termReason = "none")
        /\ pc \in {"render", "key", "win", "read"} =>
              /\ consecutive_failures = 0
              /\ termReason = "none"
              /\ exit_status = NoStatus
        /\ termReason \in {"none", "quit", "closed", "interrupt", "error"}

C2_Witness ==
    /\ NearCeilingRecovered
    /\ pc = "read"
    /\ consecutive_failures = 0
    /\ exit_status = NoStatus

\* C3: for a file source the first failed read ends the loop: no backoff and
\* no second read follow it, the exit code is EXIT_OK and frame_count is the
\* number of frames delivered before it.
C3_FileEndsOnFirstFailure ==
    (source = "file" /\ trailingFails >= 1) =>
        /\ trailingFails = 1
        /\ pc \in {"ret", "eof", "except_kbd", "finally", "exited"}
        /\ frame_count = delivered
        /\ termReason \in {"none", "eof", "interrupt"}
        /\ pc \in {"finally", "exited"} => exit_code = EXIT_OK
        /\ pc = "exited" => exit_status = EXIT_OK

C3_Witness ==
    /\ source = "file"
    /\ pc = "exited"
    /\ termReason = "eof"
    /\ delivered = 2
    /\ frame_count = 2
    /\ exit_status = EXIT_OK

\* open_capture has returned an open handle to main
Established == pc \notin OpenPcs /\ cap # None

\* C4 (as stated): once open_capture has returned an open handle, every exit of
\* the process has released that handle exactly once and has destroyed the
\* display resources exactly once.
C4_ReleasedOnEveryExit ==
    (Established /\ pc = "exited") =>
        /\ handles[cap].releases = 1
        /\ destroyCalls = 1

\* the run ended for the reason r
EndedBy(r) == pc = "exited" /\ termReason = r

\* C5 (as stated): the exit status is one of 0, 1, 2; it is 0 exactly when the
\* loop ended by quit key, closed window, end of file or interrupt, 1 exactly
\* when no connection was established, 2 exactly when the loop ended by the
\* failure ceiling or by an unexpected error.
C5_ExitStatusByReason ==
    pc = "exited" =>
        /\ exit_status \in {EXIT_OK, EXIT_INIT_FAIL, EXIT_RUNTIME_FAIL}
        /\ exit_status = EXIT_OK <=>
              termReason \in {"quit", "closed", "eof", "interrupt"}
        /\ exit_status = EXIT_INIT_FAIL <=> cap = None
        /\ exit_status = EXIT_RUNTIME_FAIL <=>
              termReason \in {"ceiling", "error", "uncaught"}

\* every handle created so far failed to open
AllOpensFailed == \A h \in DOMAIN handles : ~handles[h].opened

\* C6: for an rtsp source with a path whose every open attempt fails,
\* open_capture makes exactly RTSP_RETRY_ATTEMPTS attempts, has released each
\* failed handle before the next attempt or sleep, sleeps after each failed
\* attempt but the last, and the run exits with EXIT_INIT_FAIL.
C6_RtspExhaustsRetries ==
    (source = "rtsp" /\ path # "" /\ AllOpensFailed) =>
        /\ \A h \in DOMAIN handles : handles[h].releases = 1
        /\ pc = "rtsp_attempt" => (Len(handles) = attempt - 1 /\ delays = attempt - 1)
        /\ pc = "rtsp_sleep" => (Len(handles) = attempt /\ delays = attempt - 1)
        /\ pc \notin OpenPcs =>
              /\ Len(handles) = RTSP_RETRY_ATTEMPTS
              /\ delays = RTSP_RETRY_ATTEMPTS - 1
              /\ cap = None
              /\ pc \in {"main_check", "exited"}
        /\ pc = "exited" => exit_status = EXIT_INIT_FAIL

C6_Witness ==
    /\ source = "rtsp"
    /\ path # ""
    /\ AllOpensFailed
    /\ pc = "exited"
    /\ Len(handles) = RTSP_RETRY_ATTEMPTS
    /\ delays = RTSP_RETRY_ATTEMPTS - 1
    /\ exit_status = EXIT_INIT_FAIL

\* control points at which every read made so far has been handled
CountedPcs == {"read", "backoff", "eof", "ceiling", "ceil_break",
               "render", "key", "win"}

\* C7: at every iteration of the loop frame_count is the number of reads that
\* delivered a frame; handling a failed read changes neither frame_count nor
\* the rate window; while no read has failed since the last good one
\* consecutive_failures is 0; a run ended by the ceiling has counted every
\* delivered frame and carries EXIT_RUNTIME_FAIL.
C7_FrameCountIsDelivered ==
    /\ [](/\ (pc \in CountedPcs \/ (pc = "ret" /\ ~ret)) => frame_count = delivered
          /\ (pc = "ret" /\ ret) => frame_count = delivered - 1
          /\ (pc \in CountedPcs /\ trailingFails = 0) => consecutive_failures = 0
          /\ Len(frame_durations) = frame_count
          /\ termReason \in {"eof", "ceiling", "quit", "closed", "error"} =>
                frame_count = delivered
          /\ termReason = "ceiling" => exit_code = EXIT_RUNTIME_FAIL)
    /\ [][(pc = "ret" /\ ~ret) =>
             (frame_count' = frame_count /\ frame_durations' = frame_durations)]_vars
    /\ [][(pc = "ret" /\ ret /\ pc' = "render") => frame_count' = frame_count + 1]_vars

C7_Witness ==
    /\ source = "webcam"
    /\ pc = "exited"
    /\ termReason = "ceiling"
    /\ delivered = MaxFrames
    /\ frame_count = MaxFrames
    /\ exit_status = EXIT_RUNTIME_FAIL

\* open_capture has returned and no handle it created ever opened
EstablishFailed == pc \notin OpenPcs /\ AllOpensFailed

\* C8: when establishing the connection fails the run exits with
\* EXIT_INIT_FAIL after reporting the failure, and has never read a frame,
\* created the window or reported a session summary.
C8_InitFailSkipsLoop ==
    EstablishFailed =>
        /\ cap = None
        /\ pc \in {"main_check", "exited"}
        /\ readCalls = "none"
        /\ ~windowCreated
        /\ destroyCalls = 0
        /\ summaries = 0
        /\ pc = "exited" =>
              (exit_status = EXIT_INIT_FAIL /\ initErrorLogged /\ termReason = "init_fail")

C8_Witness ==
    /\ EstablishFailed
    /\ source = "webcam"
    /\ Len(handles) = 1
    /\ pc = "exited"
    /\ exit_status = EXIT_INIT_FAIL

\* the configuration is rejected by open_capture
ConfigError == (source \in {"file", "rtsp"} /\ path = "") \/ source = "invalid"

\* C9: with a file or rtsp source and an absent or empty path, and with an
\* invalid source kind, open_capture returns None having created no capture
\* handle and slept for no retry delay.
C9_ConfigErrorFailsFast ==
    ConfigError =>
        /\ Len(handles) = 0
        /\ delays = 0
        /\ pc \in {"open", "main_check", "exited"}
        /\ cap = None
        /\ pc = "exited" => exit_status = EXIT_INIT_FAIL

C9_Witness ==
    /\ source = "rtsp"
    /\ path = ""
    /\ pc = "main_check"
    /\ Len(handles) = 0
    /\ delays = 0

\* C10: what open_capture returns is None or a handle that reports itself
\* open when it is returned; for rtsp it is the handle of the first attempt
\* that opened and no attempt is made after it.
C10_ReturnsOpenHandleOrNone ==
    /\ pc \in {"main_check", "window"} => (cap = None \/ isOpened(cap))
    /\ (pc \notin OpenPcs /\ cap # None) =>
          /\ handles[cap].opened
          /\ cap = Len(handles)
          /\ \A h \in 1..(cap - 1) : ~handles[h].opened /\ handles[h].releases = 1
    /\ source # "rtsp" => Len(handles) <= 1
    /\ Len(handles) <= RTSP_RETRY_ATTEMPTS

C10_Witness ==
    /\ source = "rtsp"
    /\ pc = "main_check"
    /\ cap = 2
    /\ isOpened(cap)
    /\ ~handles[1].opened

\* the session's handle was released once, the windows destroyed once and
\* one summary line reported
CleanedUpOnce ==
    /\ handles[cap].releases = 1
    /\ destroyCalls = 1
    /\ summaries = 1

\* C11: an exception raised by the read, the frame-rate and overlay code, the
\* display or the key/window polling is caught by the except Exception clause:
\* the exit code becomes EXIT_RUNTIME_FAIL, the finally block releases the
\* handle and the windows and reports the summary, and the process exits
\* with 2.
C11_LoopErrorIsRuntimeFail ==
    /\ pc = "except_exc" =>
          /\ raisedAt \in {"read", "render", "key", "win"}
          /\ exit_status = NoStatus
          /\ termReason = "none"
    /\ termReason = "error" =>
          /\ pc \in {"finally", "exited"}
          /\ raisedAt \in {"read", "render", "key", "win"}
          /\ exit_code = EXIT_RUNTIME_FAIL
    /\ EndedBy("error") => (exit_status = EXIT_RUNTIME_FAIL /\ CleanedUpOnce)

C11_Witness ==
    /\ EndedBy("error")
    /\ raisedAt = "render"
    /\ frame_count = 2
    /\ exit_status = EXIT_RUNTIME_FAIL
    /\ CleanedUpOnce

\* C12: a KeyboardInterrupt raised at any control point of the try block, the
\* point after exit_code = EXIT_RUNTIME_FAIL and before break included, is
\* caught by the except KeyboardInterrupt clause: the exit code becomes
\* EXIT_OK, the finally block releases the handle and the windows and reports
\* the summary, and the process exits with 0.
C12_InterruptIsNormal ==
    /\ pc = "except_kbd" =>
          /\ raisedAt \in TryPcs
          /\ exit_status = NoStatus
          /\ termReason \in {"none"}
    /\ termReason = "interrupt" =>
          /\ pc \in {"finally", "exited"}
          /\ raisedAt \in TryPcs
          /\ exit_code = EXIT_OK
    /\ EndedBy("interrupt") => (exit_status = EXIT_OK /\ CleanedUpOnce)

C12_Witness ==
    /\ EndedBy("interrupt")
    /\ raisedAt = "ceil_break"
    /\ consecutive_failures = CONSEC_FAIL_MAX
    /\ exit_status = EXIT_OK
    /\ CleanedUpOnce

\* an iteration has run to its end and the loop is about to read again
IterationDone == pc = "read" /\ readCalls = "some"

\* C13 (as stated): a quit request or a closed window pending when an
\* iteration starts ends the loop by the end of that iteration, whatever the
\* read returns: no iteration that started with a request pending runs to its
\* end and goes on to the next read.
C13_PendingSignalEndsIteration ==
    IterationDone => pendingAtRead = "none"

\* C13 (amended): the key and the window are polled once each, after the
\* render, in an iteration whose read delivers a frame (the window only when
\* the key was not q) and not at all in an iteration whose read fails.  A
\* request pending at the start of an iteration ends the loop within that
\* iteration when its read delivers a frame; an iteration whose read fails
\* runs to its end with the request still pending.
C13_PendingSignalEndsDeliveredIteration ==
    /\ (IterationDone /\ pendingAtRead # "none") => (~ret /\ pending = pendingAtRead)
    /\ (ret /\ pendingAtRead = "quit") => pc \notin {"win", "read", "backoff"}
    /\ (ret /\ pendingAtRead = "closed") => pc \notin {"read", "backoff"}
    /\ (pc \in {"read", "backoff", "eof", "ceiling", "ceil_break"} \/ (pc = "ret" /\ ~ret)) =>
          (keyPolls = delivered /\ winPolls = delivered /\ rendered = delivered)
    /\ (pc = "ret" /\ ret) =>
          (keyPolls = delivered - 1 /\ winPolls = delivered - 1)
    /\ pc = "win" => (keyPolls = delivered /\ winPolls = delivered - 1)
    /\ keyPolls <= rendered
    /\ winPolls <= keyPolls

C13_Witness ==
    /\ EndedBy("ceiling")
    /\ pendingAtRead = "quit"
    /\ trailingFails = CONSEC_FAIL_MAX
    /\ delivered = 1
    /\ keyPolls = 1
    /\ exit_status = EXIT_RUNTIME_FAIL

\* the smaller of two numbers
Min(a, b) == IF a < b THEN a ELSE b

\* the last n entries of a sequence, in order
LastN(q, n) == SubSeq(q, Len(q) - n + 1, Len(q))

\* C14: the rate window never holds more than FPS_FRAME_COUNT entries; after
\* n delivered frames it holds the min(n, FPS_FRAME_COUNT) most recent
\* durations in arrival order; an iteration whose read fails leaves it as
\* it is.
C14_WindowIsRecentDurations ==
    /\ [](/\ Len(frame_durations) <= FPS_FRAME_COUNT
          /\ Len(durationLog) = frame_count
          /\ frame_durations =
                LastN(durationLog, Min(Len(durationLog), FPS_FRAME_COUNT)))
    /\ [][frame_durations' # frame_durations =>
             (ret' /\ frame_count' = frame_count + 1)]_vars
    /\ [][~ret' => frame_durations' = frame_durations]_vars

C14_Witness ==
    /\ Len(durationLog) = FPS_FRAME_COUNT + 2
    /\ Len(frame_durations) = FPS_FRAME_COUNT
    /\ durationLog[2] # durationLog[3]
    /\ frame_durations[1] = durationLog[3]
    /\ ~ret

\* C15: whatever the window holds, window of one entry and all-zero window
\* included, fps is 1 / mean(window) when the mean is strictly positive and
\* 0.0 otherwise, and its denominator is never zero.
C15_FpsNeverDividesByZero ==
    LET total == SeqSum(frame_durations)
        n == Len(frame_durations)
    IN  /\ fps[2] # 0
        /\ total > 0 => fps[1] * total = fps[2] * n
        /\ total > 0 => fps[1] > 0
        /\ total = 0 => fps = << 0, 1 >>

C15_Witness ==
    /\ durationLog = << 0 >>
    /\ frame_durations = << 0 >>
    /\ fps = << 0, 1 >>

\* the last FPS_FRAME_COUNT frames all had the duration d
ConstantTail(d) ==
    /\ Len(durationLog) >= FPS_FRAME_COUNT
    /\ \A i \in 1..FPS_FRAME_COUNT : durationLog[Len(durationLog) - i + 1] = d

C17_NoReconnect ==
    /\ [][pc \notin OpenPcs =>
             /\ pc' \notin OpenPcs
             /\ Len(handles') = Len(handles)
             /\ delays' = delays
             /\ attempt' = attempt]_vars
    /\ [](termReason = "ceiling" => pc \in {"finally", "exited"})

C17_Witness ==
    /\ EndedBy("ceiling")
    /\ source = "rtsp"
    /\ Len(handles) = 2
    /\ delays = 1
    /\ trailingFails = CONSEC_FAIL_MAX
    /\ handles[cap].releases = 1

\* C18: the quit key and the closed window are looked for after the render of
\* the frame just read: when one of them is seen after the k-th delivered
\* frame the loop ends in that iteration with k frames counted and k frames
\* rendered, no read or render follows, and the process exits with 0.
C18_QuitAfterRender ==
    /\ termReason \in {"quit", "closed"} =>
          /\ pc \in {"finally", "exited"}
          /\ exit_code = EXIT_OK
          /\ ret
          /\ trailingFails = 0
          /\ frame_count = delivered
          /\ rendered = delivered
          /\ keyPolls = delivered
          /\ raisedAt = "none"
    /\ termReason = "quit" => (key = "q" /\ winPolls = delivered - 1)
    /\ termReason = "closed" => (key # "q" /\ winPolls = delivered)
    /\ key = "q" => termReason = "quit"
    /\ (EndedBy("quit") \/ EndedBy("closed")) =>
          (exit_status = EXIT_OK /\ CleanedUpOnce)

C18_Witness ==
    /\ EndedBy("quit")
    /\ frame_count = MaxFrames
    /\ rendered = MaxFrames
    /\ exit_status = EXIT_OK

\* C19: consecutive_failures is set to 0 by the handling of every read that
\* delivers a frame and raised by 1 by the handling of every read that fails,
\* for every source kind; once a read has been handled it is the length of
\* the trailing run of failed reads; it stays within 0..CONSEC_FAIL_MAX and is
\* below CONSEC_FAIL_MAX whenever a non-file loop is about to read.
C19_FailuresCountTrailingRun ==
    /\ [](/\ consecutive_failures \in 0..CONSEC_FAIL_MAX
          /\ pc \in CountedPcs => consecutive_failures = trailingFails
          /\ (pc = "ret" /\ ~ret) => consecutive_failures = trailingFails - 1
          /\ (pc = "ret" /\ ret) => trailingFails = 0
          /\ (pc = "read" /\ NonFile) => consecutive_failures < CONSEC_FAIL_MAX
          /\ termReason \in {"eof", "ceiling", "quit", "closed", "error"} =>
                consecutive_failures = trailingFails)
    /\ [][(pc = "ret" /\ ~ret /\ pc' \notin {"ret", "except_kbd"}) =>
             consecutive_failures' = consecutive_failures + 1]_vars
    /\ [][(pc = "ret" /\ ret /\ pc' \notin {"ret", "except_kbd"}) =>
             consecutive_failures' = 0]_vars

C19_Witness ==
    /\ pc = "read"
    /\ source = "rtsp"
    /\ delivered = 1
    /\ trailingFails = CONSEC_FAIL_MAX - 1
    /\ consecutive_failures = CONSEC_FAIL_MAX - 1

\* C20 (as stated): when open_capture has returned, every capture it created
\* and did not return has been released.
C20_UnreturnedHandlesReleased ==
    pc \notin OpenPcs =>
        \A h \in DOMAIN handles : h # cap => handles[h].releases >= 1
====
